---- MODULE Spec2Model ----
(***************************************************************************)
(* Model of the canvas-notes front end: the useNotes hook (optimistic      *)
(* create / update / delete with a remote persistence service), the       *)
(* NoteEditor auto-save timer and the StickyNote pointer handlers that     *)
(* call it.                                                                *)
(***************************************************************************)
EXTENDS Integers, Sequences, FiniteSets, TLC

(* ---------------------------- bounds ----------------------------------- *)
MaxNotes == 2
MaxRequests == 3
MaxTime == 1
MaxCanvasEvents == 3

(* ------------------------- program constants --------------------------- *)
DefaultWidth == 240
DefaultHeight == 180
MinWidth == 180
MinHeight == 120

NoId == 0
Ids == 1..MaxNotes
NoteColor == {"yellow", "pink", "blue", "green", "lavender", "coral"}
DefaultColor == "yellow"

\* an argument that was not passed, a property that is not there
Undefined == "undefined"

NoNote ==
  [id |-> NoId, title |-> "", content |-> "", x |-> 0, y |-> 0, width |-> 0,
   height |-> 0, color |-> "", createdAt |-> 0, updatedAt |-> 0]

VARIABLES
  notes,         \* useState<Note[]>: the local collection, in stacking order
  closureNotes,  \* the `notes` value captured by the deleteNote callback
  isLoaded,      \* useState(false)
  error,         \* useState<string | null>
  token,         \* useAuth().token is present
  net,           \* fetch() calls awaiting their outcome, in issue order
  server,        \* rows of the service's notes table, by id
  now,           \* Date.now() / datetime.utcnow()
  nextId,        \* number of identifiers generateId has produced
  issued,        \* number of fetch() calls made so far
  returned,      \* ids whose createNote promise has resolved to the note
  event,         \* the handler that ran last (history)
  selectedNote,  \* Canvas: useState<Note | null>
  title,         \* NoteEditor: useState('')
  content,       \* NoteEditor: useState('')
  selectedColor, \* NoteEditor: useState<NoteColor>('yellow')
  timer,         \* NoteEditor: the pending setTimeout of the auto-save effect
  isDragging,    \* StickyNote: useState(false), per mounted note
  isResizing,    \* StickyNote: useState(false), per mounted note
  dragStartRef,  \* StickyNote: useRef({x, y, noteX, noteY}), per note
  resizeStartRef,\* StickyNote: useRef({x, y, width, height}), per note
  canvasState,   \* useCanvas: useState<CanvasState>, {offsetX, offsetY, scale}
  closureCanvas, \* the canvasState of the last render, as handleWheel reads it
  isPanning,     \* useCanvas: useState(false)
  isSpacePressed,\* useCanvas: useState(false)
  storage,       \* localStorage['whiteboard-canvas']
  storageFull,   \* localStorage.setItem throws (the quota is used up)
  canvasError,   \* the exception that left an effect of useCanvas, if any
  canvasEvents,  \* number of wheel and pan-move events so far
  gesture        \* the pointer gesture on a note since its press (history)

hookVars == <<notes, closureNotes, isLoaded, error, token, net, server, now,
              nextId, issued, returned>>
editorVars == <<selectedNote, title, content, selectedColor, timer>>
stickyVars == <<isDragging, isResizing, dragStartRef, resizeStartRef>>
canvasVars == <<canvasState, closureCanvas, isPanning, isSpacePressed, storage,
                storageFull, canvasError, canvasEvents>>
uiVars == <<editorVars, stickyVars, canvasVars, gesture>>
vars == <<hookVars, event, uiVars>>

(* ------------------------------ helpers -------------------------------- *)
RECURSIVE Filter(_, _)
Filter(s, id) ==
  IF s = <<>> THEN <<>>
  ELSE IF Head(s).id = id THEN Filter(Tail(s), id)
       ELSE <<Head(s)>> \o Filter(Tail(s), id)

Find(s, id) ==
  IF \E i \in DOMAIN s : s[i].id = id
  THEN s[CHOOSE i \in DOMAIN s : s[i].id = id /\ \A j \in 1..(i-1) : s[j].id # id]
  ELSE NoNote

Has(s, id) == \E i \in DOMAIN s : s[i].id = id

RemoveAt(s, i) == [j \in 1..(Len(s) - 1) |-> IF j < i THEN s[j] ELSE s[j + 1]]

\* the arguments of createNote
NoArgs == [x |-> 0, y |-> 0, color |-> ""]
CreateArgs(x, y, color) == [x |-> x, y |-> y, color |-> color]

EvCall(op, id, outcome, args) ==
  [op |-> op, id |-> id, outcome |-> outcome, args |-> args]

Ev(op, id, outcome) == EvCall(op, id, outcome, NoArgs)

\* a step of the interface that calls no operation of the hook
NoOperation == Ev("none", NoId, "-")

\* atCall and atIndex are history: the note of the collection a delete
\* removed, and the place it had there (0 when the delete removed nothing)
Req(kind, id, body, noteToDelete, atCall) ==
  [kind |-> kind, id |-> id, body |-> body, auth |-> token,
   noteToDelete |-> noteToDelete, atCall |-> atCall, atIndex |-> 0]

GetRequest ==
  [kind |-> "GET", id |-> NoId, body |-> NoNote, auth |-> TRUE,
   noteToDelete |-> NoNote, atCall |-> NoNote, atIndex |-> 0]

(* ------------------------- numbers of the viewport --------------------- *)
\* A JavaScript number as the fraction n/d in lowest terms with d >= 0;
\* d = 0 stands for Infinity (n = 1), -Infinity (n = -1) and NaN (n = 0).
Abs(a) == IF a < 0 THEN -a ELSE a
Sign(a) == IF a > 0 THEN 1 ELSE IF a < 0 THEN -1 ELSE 0

RECURSIVE Gcd(_, _)
Gcd(a, b) == IF b = 0 THEN a ELSE Gcd(b, a % b)

Norm(n, d) ==
  IF d = 0 THEN [n |-> Sign(n), d |-> 0]
  ELSE LET g == Gcd(Abs(n), Abs(d))
       IN [n |-> (Sign(d) * n) \div g, d |-> Abs(d) \div g]

Num(a) == [n |-> a, d |-> 1]
NaN == [n |-> 0, d |-> 0]
IsFinite(x) == x.d # 0

Times(x, y) == Norm(x.n * y.n, x.d * y.d)
Over(x, y) == Norm(x.n * y.d, x.d * y.n)
Plus(x, y) ==
  IF IsFinite(x) /\ IsFinite(y) THEN Norm(x.n * y.d + y.n * x.d, x.d * y.d)
  ELSE IF x = NaN \/ y = NaN THEN NaN
  ELSE IF IsFinite(y) THEN x
  ELSE IF IsFinite(x) \/ x = y THEN y
  ELSE NaN
Minus(x, y) == Plus(x, [n |-> -y.n, d |-> y.d])

\* x < y; false when either side is NaN
Less(x, y) ==
  /\ x # NaN /\ y # NaN
  /\ IF IsFinite(x) \/ IsFinite(y) THEN x.n * y.d < y.n * x.d ELSE x.n < y.n

\* Math.max and Math.min give NaN when an argument is NaN
MathMax(x, y) == IF x = NaN \/ y = NaN THEN NaN ELSE IF Less(x, y) THEN y ELSE x
MathMin(x, y) == IF x = NaN \/ y = NaN THEN NaN ELSE IF Less(y, x) THEN y ELSE x

\* x === y
StrictEquals(x, y) == x = y /\ x # NaN

(* ------------------------------ inputs --------------------------------- *)
Positions == {50}
PositionsY == {70}
ColorInputs == {Undefined, "pink"}
ToolbarColors == {DefaultColor}
EditorPatch == [title |-> "a", content |-> "b", color |-> "pink"]
DragPatch == [x |-> 60, y |-> 70]
ShrinkPatch == [width |-> 100, height |-> 50]
UpdateInputs == {EditorPatch, DragPatch, ShrinkPatch}
PressPoints == {<<0, 0>>}
MovePoints == {<<10, 20>>, <<-100, -100>>}

(* ----------------------- the persistence service ----------------------- *)
NoRow ==
  [id |-> NoId, title |-> "", content |-> "", x |-> 0, y |-> 0, width |-> 0,
   height |-> 0, color |-> "", created_at |-> 0, updated_at |-> 0]

\* datetime.utcnow().isoformat(): a text timestamp, not the client's number
IsoFormat(t) == 1000 + t

\* the service's handler runs to its success path
Accepts(r) ==
  /\ r.auth
  /\ r.kind = "POST" => server[r.id] = NoRow
  /\ r.kind \in {"PATCH", "DELETE"} => r.id \in Ids /\ server[r.id] # NoRow

InsertRow(r) ==
  [id |-> r.id, title |-> r.body.title, content |-> r.body.content,
   x |-> r.body.x, y |-> r.body.y, width |-> r.body.width,
   height |-> r.body.height, color |-> r.body.color,
   created_at |-> IsoFormat(now), updated_at |-> IsoFormat(now)]

UpdateRow(row, updates) ==
  [f \in DOMAIN row |->
     IF f = "updated_at" THEN IsoFormat(now)
     ELSE IF f \in DOMAIN updates THEN updates[f] ELSE row[f]]

ServerApply(r) ==
  CASE r.kind = "POST" -> [server EXCEPT ![r.id] = InsertRow(r)]
    [] r.kind = "PATCH" -> [server EXCEPT ![r.id] = UpdateRow(server[r.id], r.body)]
    [] r.kind = "DELETE" -> [server EXCEPT ![r.id] = NoRow]
    [] OTHER -> server

Rows == {server[i] : i \in {j \in Ids : server[j] # NoRow}}

\* SELECT ... ORDER BY updated_at DESC: rows with equal times in either order
ListResponses ==
  {s \in [1..Cardinality(Rows) -> Rows] :
     /\ \A i, j \in DOMAIN s : i # j => s[i] # s[j]
     /\ \A i, j \in DOMAIN s : i < j => s[i].updated_at >= s[j].updated_at}

\* the snake_case to camelCase mapping of the fetch effect
MapNote(row) ==
  [id |-> row.id, title |-> row.title, content |-> row.content, x |-> row.x,
   y |-> row.y, width |-> row.width, height |-> row.height,
   color |-> row.color, createdAt |-> row.created_at,
   updatedAt |-> row.updated_at]

MappedNotes(data) == [i \in DOMAIN data |-> MapNote(data[i])]

Outcomes == {"ok", "status", "neterr"}

\* what the service holds once fetch() has settled with outcome o
ServerAfter(r, o) ==
  CASE o = "ok" -> {ServerApply(r)}
    [] o = "status" -> {server}
    [] OTHER -> {server} \cup (IF Accepts(r) THEN {ServerApply(r)} ELSE {})

Settles(i, kind, o) ==
  /\ i \in DOMAIN net
  /\ net[i].kind = kind
  /\ o = "ok" => Accepts(net[i])
  /\ net' = RemoveAt(net, i)
  /\ UNCHANGED issued
  /\ server' \in ServerAfter(net[i], o)

\* fetch(...) is called for each of reqs: the requests are on their way
Sends(reqs) ==
  /\ issued + Len(reqs) <= MaxRequests
  /\ net' = net \o reqs
  /\ issued' = issued + Len(reqs)

(* --------------------------- useNotes ---------------------------------- *)
\* the default value of createNote's parameter: color = 'yellow'
ColorOrDefaultIgnoresArgument(color) == DefaultColor
ColorOrDefault(color) == IF color = Undefined THEN DefaultColor ELSE color

NewNote(id, x, y, color) ==
  [id |-> id, title |-> "", content |-> "", x |-> x, y |-> y,
   width |-> DefaultWidth, height |-> DefaultHeight, color |-> color,
   createdAt |-> now, updatedAt |-> now]

MergeKeepsTimestamp(note, updates) ==
  [f \in DOMAIN note |-> IF f \in DOMAIN updates THEN updates[f] ELSE note[f]]

Merge(note, updates) ==
  [f \in DOMAIN note |->
     IF f = "updatedAt" THEN now
     ELSE IF f \in DOMAIN updates THEN updates[f] ELSE note[f]]

MapUpdate(prev, id, updates) ==
  [i \in DOMAIN prev |-> IF prev[i].id = id THEN Merge(prev[i], updates) ELSE prev[i]]

MoveToEndRotates(prev, id) ==
  IF prev = <<>> THEN prev ELSE Tail(prev) \o <<Head(prev)>>

MoveToEndStampsTime(prev, id) ==
  IF ~Has(prev, id) THEN prev
  ELSE Append(Filter(prev, id), [Find(prev, id) EXCEPT !.updatedAt = now])

MoveToEnd(prev, id) ==
  IF ~Has(prev, id) THEN prev ELSE Append(Filter(prev, id), Find(prev, id))

\* the catch blocks and the code after a settled await
CreateCatchDropsLast(prev, id) == SubSeq(prev, 1, Len(prev) - 1)
CreateCatch(prev, id) == Filter(prev, id)

UpdateCatchRollsBack(prev, id) == Filter(prev, id)
UpdateCatch(prev, id) == prev

UpdateSettledTakesEcho(prev, id) ==
  [i \in DOMAIN prev |->
     IF prev[i].id = id /\ id \in Ids /\ server[id] # NoRow
     THEN MapNote(server[id]) ELSE prev[i]]
UpdateSettledOk(prev, id) == prev

DeleteCatch(prev, noteToDelete) ==
  IF noteToDelete # NoNote THEN Append(prev, noteToDelete) ELSE prev

\* updateNote called once per element of us, in order, by one handler
RECURSIVE MapUpdates(_, _, _)
MapUpdates(prev, id, us) ==
  IF us = <<>> THEN prev ELSE MapUpdates(MapUpdate(prev, id, Head(us)), id, Tail(us))

PatchRequests(id, us) == [k \in DOMAIN us |-> Req("PATCH", id, us[k], NoNote, NoNote)]

\* Each operation of the hook fixes every variable of the hook but
\* closureNotes, which changes when React renders.
CreateNote(x, y, color) ==
  /\ nextId < MaxNotes
  /\ LET newNote == NewNote(nextId + 1, x, y, ColorOrDefault(color))
     IN /\ notes' = Append(notes, newNote)
        /\ Sends(<<Req("POST", newNote.id, newNote, NoNote, NoNote)>>)
  /\ nextId' = nextId + 1
  /\ UNCHANGED <<isLoaded, error, token, server, now, returned>>

UpdateNotes(id, us) ==
  /\ notes' = MapUpdates(notes, id, us)
  /\ Sends(PatchRequests(id, us))
  /\ UNCHANGED <<isLoaded, error, token, server, now, nextId, returned>>

UpdateNote(id, updates) == UpdateNotes(id, <<updates>>)

DeleteNote(id) ==
  /\ LET noteToDelete == Find(closureNotes, id)
         at == {k \in DOMAIN notes : notes[k].id = id}
         first == IF at = {} THEN 0 ELSE CHOOSE k \in at : \A j \in at : k <= j
     IN /\ notes' = Filter(notes, id)
        /\ Sends(<<[Req("DELETE", id, NoNote, noteToDelete, Find(notes, id))
                      EXCEPT !.atIndex = first]>>)
  /\ UNCHANGED <<isLoaded, error, token, server, now, nextId, returned>>

BringToFrontLeavesOrder(id) ==
  /\ notes' = notes
  /\ UNCHANGED <<isLoaded, error, token, net, server, now, nextId, issued, returned>>

BringToFront(id) ==
  /\ notes' = MoveToEnd(notes, id)
  /\ UNCHANGED <<isLoaded, error, token, net, server, now, nextId, issued, returned>>

CreateSettled(i, o) ==
  /\ Settles(i, "POST", o)
  /\ notes' = IF o = "neterr" THEN CreateCatch(notes, net[i].id) ELSE notes
  /\ returned' = returned \cup {net[i].id}
  /\ UNCHANGED <<isLoaded, error, token, now, nextId>>

UpdateSettled(i, o) ==
  /\ Settles(i, "PATCH", o)
  /\ notes' = IF o = "neterr" THEN UpdateCatch(notes, net[i].id)
              ELSE UpdateSettledOk(notes, net[i].id)
  /\ UNCHANGED <<isLoaded, error, token, now, nextId, returned>>

DeleteSettled(i, o) ==
  /\ Settles(i, "DELETE", o)
  /\ notes' = IF o = "neterr" THEN DeleteCatch(notes, net[i].noteToDelete) ELSE notes
  /\ UNCHANGED <<isLoaded, error, token, now, nextId, returned>>

\* fetchNotes after its await: response.ok, a 401, another status, a rejection
FetchSettled(i, o, unauthorized) ==
  /\ Settles(i, "GET", o)
  /\ \E data \in ListResponses :
       /\ notes' = IF o = "ok" THEN MappedNotes(data) ELSE notes
       /\ error' = CASE o = "ok" -> "none"
                     [] o = "status" /\ unauthorized -> "Session expired. Please log in again."
                     [] o = "status" -> "Failed to fetch notes"
                     [] OTHER -> "Failed to fetch"
  /\ isLoaded' = TRUE
  /\ UNCHANGED <<token, now, nextId, returned>>

\* the fetch effect, run after the render that follows a change of token
FetchEffect ==
  IF token'
  THEN /\ Sends(<<GetRequest>>)
       /\ UNCHANGED isLoaded
  ELSE /\ isLoaded' = TRUE
       /\ UNCHANGED <<net, issued>>

\* the requests the fetch effect has sent when the hook has mounted with token t
SentAtMountWithoutToken(t) == <<GetRequest>>
SentAtMount(t) == IF t THEN <<GetRequest>> ELSE <<>>

SetToken(t) ==
  /\ token # t
  /\ token' = t
  /\ FetchEffect
  /\ UNCHANGED <<notes, error, server, now, nextId, returned>>

(* ------------------------------ React ---------------------------------- *)
\* A StickyNote is mounted for every note of the rendered list; its state
\* is dropped when the note leaves the list.
InitialDragStart == [x |-> 0, y |-> 0, noteX |-> 0, noteY |-> 0]
InitialResizeStart == [x |-> 0, y |-> 0, width |-> 0, height |-> 0]

\* React renders the queued state: deleteNote is re-created over it and the
\* StickyNotes of the notes that left the list are unmounted.
Commits(dragging, resizing, dragStart, resizeStart) ==
  /\ closureNotes' = notes'
  /\ isDragging' = [id \in Ids |-> dragging[id] /\ Has(notes', id)]
  /\ isResizing' = [id \in Ids |-> resizing[id] /\ Has(notes', id)]
  /\ dragStartRef' =
       [id \in Ids |-> IF Has(notes', id) THEN dragStart[id] ELSE InitialDragStart]
  /\ resizeStartRef' =
       [id \in Ids |-> IF Has(notes', id) THEN resizeStart[id] ELSE InitialResizeStart]

Commit == Commits(isDragging, isResizing, dragStartRef, resizeStartRef)

NoCommit == UNCHANGED <<closureNotes, stickyVars>>

(* ---------------------------- NoteEditor ------------------------------- *)
\* what a Promise<Note> looks like to code that reads it as a Note
PromiseObject ==
  [id |-> NoId, title |-> Undefined, content |-> Undefined, x |-> 0, y |-> 0,
   width |-> 0, height |-> 0, color |-> Undefined, createdAt |-> 0,
   updatedAt |-> 0]

\* JSON.stringify drops the keys whose value is undefined
Defined(rec) == [f \in {g \in DOMAIN rec : rec[g] # Undefined} |-> rec[f]]

NoTimer == [armed |-> FALSE, id |-> NoId, updates |-> <<>>]

\* the auto-save effect: clearTimeout of the previous run, then setTimeout
AutoSave(note, t, c, col) ==
  IF note = NoNote THEN NoTimer
  ELSE [armed |-> TRUE, id |-> note.id,
        updates |-> Defined([title |-> t, content |-> c, color |-> col])]

\* setSelectedNote(note) and the two effects of NoteEditor that follow it
Selects(note) ==
  /\ selectedNote' = note
  /\ title' = IF note # NoNote THEN note.title ELSE ""
  /\ content' = IF note # NoNote THEN note.content ELSE ""
  /\ selectedColor' = IF note # NoNote THEN note.color ELSE DefaultColor
  /\ timer' = AutoSave(selectedNote', title', content', selectedColor')

EditorFields == {"title", "color"}
EditorValue(f) == CASE f = "title" -> "a" [] f = "content" -> "b" [] OTHER -> "pink"

(* ------------------------------ useCanvas ------------------------------ *)
MIN_SCALE == [n |-> 1, d |-> 4]
MAX_SCALE == Num(2)
ZoomOutFactor == [n |-> 9, d |-> 10]
ZoomInFactor == [n |-> 11, d |-> 10]

DefaultCanvas == [offsetX |-> Num(0), offsetY |-> Num(0), scale |-> Num(1)]

\* JSON null: it reads as 0 in arithmetic
Null == [n |-> 0, d |-> -1]
ToNumber(x) == Norm(x.n, x.d)

\* localStorage.getItem: no item, a text that is not JSON, a JSON text
NoItem == [kind |-> "none", value |-> DefaultCanvas]
NotJson == [kind |-> "text", value |-> DefaultCanvas]
Json(value) == [kind |-> "json", value |-> value]

\* JSON.stringify writes a number that is not finite as null
Stringify(state) ==
  Json([f \in DOMAIN state |-> IF IsFinite(state[f]) THEN state[f] ELSE Null])

\* what the stored text is (history): no item, a text JSON.parse rejects, a
\* record of three numbers, other JSON data
Shape(item) ==
  CASE item.kind = "none" -> "absent"
    [] item.kind = "text" -> "unparsable"
    [] \A f \in DOMAIN item.value : item.value[f].d > 0 -> "record"
    [] OTHER -> "malformed"

\* the load effect: setCanvasState(JSON.parse(stored)), kept as it is parsed
Load(item) == IF item.kind = "json" THEN item.value ELSE DefaultCanvas

ClampSkipsMax(x) == MathMax(MIN_SCALE, x)
Clamp(x) == MathMin(MAX_SCALE, MathMax(MIN_SCALE, x))

\* handleWheel on the canvasState c it captured, the pointer at (mouseX, mouseY)
Zoom(c, deltaY, mouseX, mouseY) ==
  LET delta == IF deltaY > 0 THEN ZoomOutFactor ELSE ZoomInFactor
      scale == ToNumber(c.scale)
      newScale == Clamp(Times(scale, delta))
      scaleChange == Minus(newScale, scale)
  IN [scale |-> newScale,
      offsetX |-> Minus(c.offsetX, Times(Minus(Num(mouseX), c.offsetX),
                                          Over(scaleChange, scale))),
      offsetY |-> Minus(c.offsetY, Times(Minus(Num(mouseY), c.offsetY),
                                          Over(scaleChange, scale)))]

\* the condition of handlePanStart
StartsPanNeedsBoth(spacePressed, button) == spacePressed /\ button = 1
StartsPan(spacePressed, button) == spacePressed \/ button = 1

\* whether a pan was in progress when the handler ran (history)
WhilePanning == IF isPanning THEN "panning" ELSE "-"

\* the updater of handlePanMove
PanScaled(prev, movementX, movementY) ==
  [prev EXCEPT !.offsetX = Plus(prev.offsetX, Over(Num(movementX), ToNumber(prev.scale))),
               !.offsetY = Plus(prev.offsetY, Over(Num(movementY), ToNumber(prev.scale)))]

Pan(prev, movementX, movementY) ==
  [prev EXCEPT !.offsetX = Plus(prev.offsetX, Num(movementX)),
               !.offsetY = Plus(prev.offsetY, Num(movementY))]

ResetKeepsScale(prev) == [DefaultCanvas EXCEPT !.scale = prev.scale]
ResetState(prev) == DefaultCanvas

\* The handlers run once the effects of the mount have run; an exception
\* that leaves an effect unmounts the tree, and no handler is left.
CanvasMounted == canvasError = "none" /\ event.op # "mounting"

\* the save effect: localStorage.setItem(STORAGE_KEY, JSON.stringify(canvasState))
SaveEffect ==
  IF storageFull
  THEN canvasError' = "QuotaExceededError" /\ UNCHANGED storage
  ELSE storage' = Stringify(canvasState') /\ UNCHANGED canvasError

\* a render of Canvas: the handlers capture canvasState, the save effect runs
\* when canvasState has changed
CommitCanvas ==
  /\ closureCanvas' = canvasState'
  /\ UNCHANGED storageFull
  /\ IF closureCanvas # canvasState' THEN SaveEffect
     ELSE UNCHANGED <<storage, canvasError>>

WheelPoints == <<<<0, 0>>, <<400, 300>>>>
WheelDeltas == {-100, 100}
Movements == <<<<10, -5>>>>
StoredInputs ==
  {NoItem, NotJson,
   Json([offsetX |-> Num(30), offsetY |-> Num(-20), scale |-> MAX_SCALE]),
   Json([offsetX |-> Num(0), offsetY |-> Num(0), scale |-> MIN_SCALE]),
   Json([offsetX |-> Num(0), offsetY |-> Num(0), scale |-> Num(3)]),
   Json([offsetX |-> Num(0), offsetY |-> Num(0), scale |-> Num(0)]),
   Json([offsetX |-> Null, offsetY |-> Null, scale |-> Null])}

NotesIdle == UNCHANGED <<hookVars, editorVars, stickyVars, gesture>>

Wheel ==
  \E k \in DOMAIN WheelPoints, deltaY \in WheelDeltas :
    /\ CanvasMounted
    /\ canvasEvents < MaxCanvasEvents
    /\ canvasEvents' = canvasEvents + 1
    /\ canvasState' = Zoom(closureCanvas, deltaY, WheelPoints[k][1], WheelPoints[k][2])
    /\ event' = Ev("wheel", k, IF deltaY > 0 THEN "out" ELSE "in")
    /\ UNCHANGED <<closureCanvas, isPanning, isSpacePressed, storage, storageFull,
                   canvasError>>
    /\ NotesIdle

\* handlePanStart: mousedown on the canvas with the left, middle or right button
PanStart ==
  \E button \in {0, 1, 2} :
    /\ CanvasMounted
    /\ isPanning' = IF StartsPan(isSpacePressed, button) THEN TRUE ELSE isPanning
    /\ UNCHANGED <<canvasState, isSpacePressed, canvasEvents>>
    /\ CommitCanvas
    /\ event' = Ev("panStart", button, WhilePanning)
    /\ NotesIdle

\* handlePanMove: mousemove on the canvas
PanMove ==
  \E k \in DOMAIN Movements :
    /\ CanvasMounted
    /\ isPanning => canvasEvents < MaxCanvasEvents
    /\ canvasEvents' = IF isPanning THEN canvasEvents + 1 ELSE canvasEvents
    /\ canvasState' = IF isPanning
                      THEN Pan(canvasState, Movements[k][1], Movements[k][2])
                      ELSE canvasState
    /\ event' = Ev("panMove", k, WhilePanning)
    /\ UNCHANGED <<closureCanvas, isPanning, isSpacePressed, storage, storageFull,
                   canvasError>>
    /\ NotesIdle

\* handlePanEnd: mouseup or mouseleave on the canvas
PanEnd ==
  /\ CanvasMounted
  /\ isPanning' = FALSE
  /\ UNCHANGED <<canvasState, isSpacePressed, canvasEvents>>
  /\ CommitCanvas
  /\ event' = Ev("panEnd", NoId, WhilePanning)
  /\ NotesIdle

SpaceDown ==
  /\ CanvasMounted
  /\ ~isSpacePressed
  /\ isSpacePressed' = TRUE
  /\ UNCHANGED <<canvasState, isPanning, canvasEvents>>
  /\ CommitCanvas
  /\ event' = Ev("spaceDown", NoId, "-")
  /\ NotesIdle

SpaceUpKeepsPanning ==
  /\ CanvasMounted
  /\ isSpacePressed
  /\ isSpacePressed' = FALSE
  /\ UNCHANGED <<canvasState, isPanning, canvasEvents>>
  /\ CommitCanvas
  /\ event' = Ev("spaceUp", NoId, WhilePanning)
  /\ NotesIdle

\* handleKeyUp: the release of Space
SpaceUp ==
  /\ CanvasMounted
  /\ isSpacePressed
  /\ isSpacePressed' = FALSE
  /\ isPanning' = FALSE
  /\ UNCHANGED <<canvasState, canvasEvents>>
  /\ CommitCanvas
  /\ event' = Ev("spaceUp", NoId, WhilePanning)
  /\ NotesIdle

ResetView ==
  /\ CanvasMounted
  /\ canvasState' = ResetState(canvasState)
  /\ closureCanvas' = canvasState'
  /\ SaveEffect
  /\ UNCHANGED storageFull
  /\ event' = Ev("resetView", NoId, "-")
  /\ UNCHANGED <<isPanning, isSpacePressed, canvasEvents>>
  /\ NotesIdle

RenderCanvas ==
  /\ CanvasMounted
  /\ closureCanvas # canvasState
  /\ UNCHANGED <<canvasState, isPanning, isSpacePressed, canvasEvents>>
  /\ CommitCanvas
  /\ event' = NoOperation
  /\ NotesIdle

\* The effects of the mount, in the order of their declaration: the load
\* effect queues the stored viewport, the save effect writes the viewport of
\* the first render, which is the initial one; the handlers still hold the
\* initial viewport until the next render.
MountEffects ==
  /\ event.op = "mounting"
  /\ canvasState' = Load(storage)
  /\ storage' = Stringify(closureCanvas)
  /\ event' = Ev("mount", NoId, event.outcome)
  /\ UNCHANGED <<closureCanvas, isPanning, isSpacePressed, storageFull, canvasError,
                 canvasEvents>>
  /\ NotesIdle

\* the store stops taking writes: the origin's quota is used up
StorageFills ==
  /\ CanvasMounted
  /\ ~storageFull
  /\ storageFull' = TRUE
  /\ event' = Ev("storageFull", NoId, "-")
  /\ UNCHANGED <<canvasState, closureCanvas, isPanning, isSpacePressed, storage,
                 canvasError, canvasEvents>>
  /\ NotesIdle

\* what the pointer has done to a note since the press: the note as it was
\* at the press, the point of the press, the screen displacement since
NoGesture ==
  [id |-> NoId, start |-> NoNote, pressX |-> 0, pressY |-> 0, dx |-> 0,
   dy |-> 0, moved |-> FALSE]

Pressed(id, p) ==
  [id |-> id, start |-> Find(notes, id), pressX |-> p[1], pressY |-> p[2],
   dx |-> 0, dy |-> 0, moved |-> FALSE]

Moved(g, p) ==
  [g EXCEPT !.dx = p[1] - g.pressX, !.dy = p[2] - g.pressY, !.moved = TRUE]

MountedCanvas(item) ==
  /\ canvasState = Load(item)
  /\ closureCanvas = canvasState
  /\ isPanning = FALSE
  /\ isSpacePressed = FALSE
  /\ storage = Stringify(canvasState)
  /\ storageFull = FALSE
  /\ canvasError = "none"
  /\ canvasEvents = 0
  /\ gesture = NoGesture

(* ----------------------------- the hook alone -------------------------- *)
Idle == UNCHANGED uiVars

CallCreateNote ==
  \E x \in Positions, y \in PositionsY, c \in ColorInputs :
    /\ CreateNote(x, y, c)
    /\ event' = EvCall("create", nextId + 1, "-", CreateArgs(x, y, c))
    /\ UNCHANGED closureNotes /\ Idle

CallUpdateNote ==
  \E id \in Ids, u \in UpdateInputs :
    /\ UpdateNote(id, u)
    /\ event' = Ev("update", id, "-")
    /\ UNCHANGED closureNotes /\ Idle

CallDeleteNote ==
  \E id \in Ids :
    /\ DeleteNote(id)
    /\ event' = Ev("delete", id, "-")
    /\ UNCHANGED closureNotes /\ Idle

CallBringToFront ==
  \E id \in Ids :
    /\ BringToFront(id)
    /\ event' = Ev("bringToFront", id,
                   IF event.op = "bringToFront" /\ event.id = id
                   THEN "again" ELSE "-")
    /\ UNCHANGED closureNotes /\ Idle

(* ------------------- steps shared by the specifications ---------------- *)
CreateRequestSettles ==
  \E i \in DOMAIN net, o \in Outcomes :
    /\ CreateSettled(i, o)
    /\ event' = Ev("createSettled", net[i].id, o)
    /\ NoCommit /\ UNCHANGED <<editorVars, canvasVars, gesture>>

UpdateRequestSettles ==
  \E i \in DOMAIN net, o \in Outcomes :
    /\ UpdateSettled(i, o)
    /\ event' = Ev("updateSettled", net[i].id, o)
    /\ NoCommit /\ UNCHANGED <<editorVars, canvasVars, gesture>>

DeleteRequestSettles ==
  \E i \in DOMAIN net, o \in Outcomes :
    /\ DeleteSettled(i, o)
    /\ event' = Ev("deleteSettled", net[i].id, o)
    /\ NoCommit /\ UNCHANGED <<editorVars, canvasVars, gesture>>

FetchRequestSettles ==
  \E i \in DOMAIN net, o \in Outcomes, u \in BOOLEAN :
    /\ FetchSettled(i, o, u)
    /\ event' = Ev("fetchSettled", NoId, o)
    /\ NoCommit /\ UNCHANGED <<editorVars, canvasVars, gesture>>

\* login / logout: the token changes, updateNote is re-created, so the
\* auto-save effect runs again
TokenChanges ==
  \E t \in BOOLEAN :
    /\ SetToken(t)
    /\ Commit
    /\ timer' = AutoSave(selectedNote, title, content, selectedColor)
    /\ event' = Ev(IF t THEN "login" ELSE "logout", NoId, "-")
    /\ UNCHANGED <<selectedNote, title, content, selectedColor, canvasVars, gesture>>

Render ==
  /\ closureNotes # notes
  /\ UNCHANGED <<notes, isLoaded, error, token, net, server, now, nextId, issued, returned>>
  /\ Commit
  /\ event' = NoOperation
  /\ UNCHANGED <<editorVars, canvasVars, gesture>>

Tick ==
  /\ now < MaxTime
  /\ now' = now + 1
  /\ event' = Ev("tick", NoId, "-")
  /\ UNCHANGED <<notes, closureNotes, isLoaded, error, token, net, server, nextId, issued, returned>>
  /\ UNCHANGED uiVars

\* the state once the provider and the canvas have mounted: the token read
\* from storage is t, the service holds rows, and used identifiers are taken
HookMounted(t, rows, used) ==
  /\ notes = <<>>
  /\ closureNotes = <<>>
  /\ error = "none"
  /\ token = t
  /\ isLoaded = ~t
  /\ net = SentAtMount(t)
  /\ server = rows
  /\ now = 0
  /\ nextId = used
  /\ issued = Len(net)
  /\ returned = {}
  /\ selectedNote = NoNote
  /\ title = ""
  /\ content = ""
  /\ selectedColor = DefaultColor
  /\ timer = NoTimer
  /\ isDragging = [id \in Ids |-> FALSE]
  /\ isResizing = [id \in Ids |-> FALSE]
  /\ dragStartRef = [id \in Ids |-> InitialDragStart]
  /\ resizeStartRef = [id \in Ids |-> InitialResizeStart]

Mounted(t, rows, used, item) ==
  /\ HookMounted(t, rows, used)
  /\ event = Ev("mount", NoId, Shape(item))
  /\ MountedCanvas(item)

Init == \E t \in BOOLEAN : Mounted(t, [i \in Ids |-> NoRow], 0, NoItem)

Next ==
  \/ CallCreateNote
  \/ CallUpdateNote
  \/ CallDeleteNote
  \/ CallBringToFront
  \/ CreateRequestSettles
  \/ UpdateRequestSettles
  \/ DeleteRequestSettles
  \/ FetchRequestSettles
  \/ TokenChanges
  \/ Render
  \/ Tick

Spec == Init /\ [][Next]_vars

(* -------------------- Canvas, NoteEditor, StickyNote ------------------- *)
HookIdle ==
  UNCHANGED <<notes, isLoaded, error, token, net, server, now, nextId, issued, returned>>

Max(a, b) == IF a >= b THEN a ELSE b

\* (e.clientX - start.x) / scale; note geometry is kept in whole world units,
\* which the pointer distances and scales drawn here give exactly
WorldDelta(d, scale) == (d * scale.d) \div scale.n

DragUpdate(start, p, scale) ==
  [x |-> start.noteX + WorldDelta(p[1] - start.x, scale),
   y |-> start.noteY + WorldDelta(p[2] - start.y, scale)]

ResizeUpdate(start, p, scale) ==
  [width |-> Max(MinWidth, start.width + WorldDelta(p[1] - start.x, scale)),
   height |-> Max(MinHeight, start.height + WorldDelta(p[2] - start.y, scale))]

\* one pointer: its button is down from a press on a note to the release
ButtonDown == \E id \in Ids : isDragging[id] \/ isResizing[id]

\* the backdrop of the open editor covers the canvas and the toolbar
PointerReachesCanvas == isLoaded /\ selectedNote = NoNote /\ ~ButtonDown

\* handleCreateNote / handleDoubleClick; the N key works without the pointer
HandleCreateNote ==
  \E x \in Positions, y \in PositionsY, c \in ToolbarColors, viaKey \in BOOLEAN :
    /\ viaKey \/ PointerReachesCanvas
    /\ viaKey => c = DefaultColor
    /\ CreateNote(x, y, c)
    /\ Selects(PromiseObject)
    /\ Commit
    /\ event' = EvCall("create", nextId + 1, "-", CreateArgs(x, y, c))
    /\ UNCHANGED <<canvasVars, gesture>>

\* StickyNote.handleClick -> handleSelectNote
ClickNote ==
  \E id \in Ids :
    /\ PointerReachesCanvas
    /\ Has(closureNotes, id)
    /\ ~isDragging[id]
    /\ Selects(Find(closureNotes, id))
    /\ HookIdle
    /\ Commit
    /\ event' = NoOperation
    /\ UNCHANGED <<canvasVars, gesture>>

\* the backdrop, the close button, Escape
CloseEditor ==
  /\ selectedNote # NoNote
  /\ Selects(NoNote)
  /\ HookIdle
  /\ Commit
  /\ event' = NoOperation
  /\ UNCHANGED <<canvasVars, gesture>>

\* setTitle / setContent / setSelectedColor from the editor's inputs
EditField ==
  \E f \in EditorFields :
    /\ selectedNote # NoNote
    /\ title' = IF f = "title" THEN EditorValue(f) ELSE title
    /\ content' = IF f = "content" THEN EditorValue(f) ELSE content
    /\ selectedColor' = IF f = "color" THEN EditorValue(f) ELSE selectedColor
    /\ <<title', content', selectedColor'>> # <<title, content, selectedColor>>
    /\ timer' = AutoSave(selectedNote, title', content', selectedColor')
    /\ HookIdle
    /\ Commit
    /\ event' = NoOperation
    /\ UNCHANGED <<selectedNote, canvasVars, gesture>>

\* the setTimeout callback of the auto-save effect, 300 ms after it was set
AutoSaveFires ==
  /\ timer.armed
  /\ UpdateNote(timer.id, timer.updates)
  /\ timer' = NoTimer
  /\ NoCommit
  /\ event' = Ev("update", timer.id, "-")
  /\ UNCHANGED <<selectedNote, title, content, selectedColor, canvasVars, gesture>>

\* Delete / Backspace with a note selected and the focus outside an input
KeyDelete ==
  /\ selectedNote # NoNote
  /\ DeleteNote(selectedNote.id)
  /\ Selects(NoNote)
  /\ Commit
  /\ event' = Ev("delete", selectedNote.id, "-")
  /\ UNCHANGED <<canvasVars, gesture>>

\* StickyNote.handleDelete, the click of the note's delete button
ClickDelete ==
  \E id \in Ids :
    /\ PointerReachesCanvas
    /\ Has(closureNotes, id)
    /\ DeleteNote(id)
    /\ Commit
    /\ event' = Ev("delete", id, "-")
    /\ UNCHANGED <<editorVars, canvasVars, gesture>>

\* StickyNote.handleMouseDown
MouseDownNote ==
  \E id \in Ids, p \in PressPoints :
    /\ PointerReachesCanvas
    /\ Has(closureNotes, id)
    /\ BringToFront(id)
    /\ Commits([isDragging EXCEPT ![id] = TRUE], isResizing,
               [dragStartRef EXCEPT ![id] =
                  [x |-> p[1], y |-> p[2], noteX |-> Find(closureNotes, id).x,
                   noteY |-> Find(closureNotes, id).y]],
               resizeStartRef)
    /\ event' = Ev("bringToFront", id, "-")
    /\ gesture' = Pressed(id, p)
    /\ UNCHANGED <<editorVars, canvasVars>>

\* StickyNote.handleResizeStart
ResizeStart ==
  \E id \in Ids, p \in PressPoints :
    /\ PointerReachesCanvas
    /\ Has(closureNotes, id)
    /\ BringToFront(id)
    /\ Commits(isDragging, [isResizing EXCEPT ![id] = TRUE], dragStartRef,
               [resizeStartRef EXCEPT ![id] =
                  [x |-> p[1], y |-> p[2], width |-> Find(closureNotes, id).width,
                   height |-> Find(closureNotes, id).height]])
    /\ event' = Ev("bringToFront", id, "-")
    /\ gesture' = Pressed(id, p)
    /\ UNCHANGED <<editorVars, canvasVars>>

\* The pointer went down on the handle in the lower right corner of note id
\* and has moved since: it is over the body when it is inside the rendered
\* note, left of and above that corner.
OverBody(id) ==
  LET note == Find(closureNotes, id)
      px == gesture.start.width + WorldDelta(gesture.dx, canvasState.scale)
      py == gesture.start.height + WorldDelta(gesture.dy, canvasState.scale)
  IN /\ 0 < px /\ px < note.width
     /\ 0 < py /\ py < note.height

\* StickyNote.handleMouseDown for a second button, pressed over the body
\* while the first button still holds the handle
MouseDownWhileResizing ==
  \E id \in Ids :
    /\ isLoaded /\ selectedNote = NoNote
    /\ isResizing[id] /\ ~isDragging[id]
    /\ gesture.id = id
    /\ Has(closureNotes, id)
    /\ OverBody(id)
    /\ BringToFront(id)
    /\ LET p == <<gesture.pressX + gesture.dx, gesture.pressY + gesture.dy>>
       IN /\ Commits([isDragging EXCEPT ![id] = TRUE], isResizing,
                     [dragStartRef EXCEPT ![id] =
                        [x |-> p[1], y |-> p[2], noteX |-> Find(closureNotes, id).x,
                         noteY |-> Find(closureNotes, id).y]],
                     resizeStartRef)
          /\ gesture' = Pressed(id, p)
    /\ event' = Ev("bringToFront", id, "-")
    /\ UNCHANGED <<editorVars, canvasVars>>

\* the window mousemove listener of a note that is dragged or resized
MouseMoveNote ==
  \E id \in Ids, p \in MovePoints :
    /\ isDragging[id] \/ isResizing[id]
    /\ UpdateNotes(id,
         (IF isDragging[id]
          THEN <<DragUpdate(dragStartRef[id], p, canvasState.scale)>> ELSE <<>>)
         \o (IF isResizing[id]
             THEN <<ResizeUpdate(resizeStartRef[id], p, canvasState.scale)>> ELSE <<>>))
    /\ NoCommit
    /\ event' = Ev("update", id, "-")
    /\ gesture' = Moved(gesture, p)
    /\ UNCHANGED <<editorVars, canvasVars>>

\* The button is released over the note: the window mouseup listener runs
\* and is rendered, then the browser dispatches the click to handleClick.
MouseUpNote ==
  \E id \in Ids :
    /\ isDragging[id] \/ isResizing[id]
    /\ HookIdle
    /\ Commits([isDragging EXCEPT ![id] = FALSE], [isResizing EXCEPT ![id] = FALSE],
               dragStartRef, resizeStartRef)
    /\ IF Has(notes, id) /\ ~isDragging'[id]
       THEN Selects(Find(notes, id))
       ELSE UNCHANGED editorVars
    /\ event' = NoOperation
    /\ gesture' = NoGesture
    /\ UNCHANGED canvasVars

NextUI ==
  \/ HandleCreateNote
  \/ ClickNote
  \/ CloseEditor
  \/ EditField
  \/ AutoSaveFires
  \/ KeyDelete
  \/ ClickDelete
  \/ MouseDownNote
  \/ ResizeStart
  \/ MouseMoveNote
  \/ MouseUpNote
  \/ CreateRequestSettles
  \/ UpdateRequestSettles
  \/ DeleteRequestSettles
  \/ FetchRequestSettles
  \/ Render
  \/ Tick

\* a row the service kept from an earlier session
StoredRow ==
  [id |-> 1, title |-> "", content |-> "", x |-> 50, y |-> 50,
   width |-> DefaultWidth, height |-> DefaultHeight, color |-> DefaultColor,
   created_at |-> IsoFormat(0), updated_at |-> IsoFormat(0)]

\* a session that is logged in when the canvas mounts, with one stored note
InitUI ==
  Mounted(TRUE, [i \in Ids |-> IF i = 1 THEN StoredRow ELSE NoRow], 1, NoItem)

SpecUI == InitUI /\ [][NextUI]_vars

(* ------------------ pointer gestures on a stored note ------------------ *)
GestureScales == {[n |-> 1, d |-> 2], Num(1), Num(2)}

\* A session in which the stored note has been fetched and is shown, with
\* the viewport of an earlier session at one of the scales; nothing is in
\* flight, and the requests are counted from here.
InitGesture ==
  \E s \in GestureScales :
    /\ notes = MappedNotes(<<StoredRow>>)
    /\ closureNotes = notes
    /\ error = "none"
    /\ token = TRUE
    /\ isLoaded = TRUE
    /\ net = <<>>
    /\ server = [i \in Ids |-> IF i = 1 THEN StoredRow ELSE NoRow]
    /\ now = 0
    /\ nextId = 1
    /\ issued = 0
    /\ returned = {}
    /\ event = Ev("fetchSettled", NoId, "ok")
    /\ selectedNote = NoNote
    /\ title = ""
    /\ content = ""
    /\ selectedColor = DefaultColor
    /\ timer = NoTimer
    /\ isDragging = [id \in Ids |-> FALSE]
    /\ isResizing = [id \in Ids |-> FALSE]
    /\ dragStartRef = [id \in Ids |-> InitialDragStart]
    /\ resizeStartRef = [id \in Ids |-> InitialResizeStart]
    /\ MountedCanvas(Json([offsetX |-> Num(0), offsetY |-> Num(0), scale |-> s]))

NextGesture ==
  \/ MouseDownNote
  \/ ResizeStart
  \/ MouseDownWhileResizing
  \/ MouseMoveNote
  \/ MouseUpNote
  \/ CloseEditor
  \/ UpdateRequestSettles
  \/ Render

SpecGesture == InitGesture /\ [][NextGesture]_vars

(* ---------------- drags while every request succeeds ------------------- *)
\* the service answers a PATCH request with 200; the requests that are in
\* flight are answered in any order
UpdateRequestSucceeds ==
  \E i \in DOMAIN net :
    /\ UpdateSettled(i, "ok")
    /\ event' = Ev("updateSettled", net[i].id, "ok")
    /\ NoCommit /\ UNCHANGED <<editorVars, canvasVars, gesture>>

NextSync ==
  \/ MouseDownNote
  \/ MouseMoveNote
  \/ MouseUpNote
  \/ CloseEditor
  \/ UpdateRequestSucceeds
  \/ Render

SpecSync == InitGesture /\ [][NextSync]_vars

(* --------------------------- the viewport alone ------------------------ *)
\* the first render of useCanvas, before its effects have run: the viewport
\* is the initial one and the store holds what an earlier session left
Mounting(item) ==
  /\ canvasState = DefaultCanvas
  /\ closureCanvas = DefaultCanvas
  /\ isPanning = FALSE
  /\ isSpacePressed = FALSE
  /\ storage = item
  /\ storageFull = FALSE
  /\ canvasError = "none"
  /\ canvasEvents = 0
  /\ gesture = NoGesture

InitCanvas ==
  \E item \in StoredInputs :
    /\ HookMounted(FALSE, [i \in Ids |-> NoRow], 0)
    /\ event = Ev("mounting", NoId, Shape(item))
    /\ Mounting(item)

NextCanvas ==
  \/ MountEffects
  \/ Wheel
  \/ PanStart
  \/ PanMove
  \/ PanEnd
  \/ SpaceDown
  \/ SpaceUp
  \/ ResetView
  \/ RenderCanvas
  \/ StorageFills

SpecCanvas == InitCanvas /\ [][NextCanvas]_vars

(* ============================ the claims =============================== *)
Failed(o) == o # "ok"
LastRequest(s) == s[Len(s)]
OtherNotes(s, id) == SelectSeq(s, LAMBDA n : n.id # id)

\* C1: when the request of a created note fails (the transport fails or the
\* service answers with an error status), the note is no longer in the
\* local collection.
C1_FailedCreateIsRolledBack ==
  [][(event'.op = "createSettled" /\ Failed(event'.outcome))
       => ~Has(notes', event'.id)]_vars

\* C2: when the request of a delete fails, the note is back in the local
\* collection with the field values it had when deleteNote was called.
C2_FailedDeleteRestoresNote ==
  [][\A i \in DOMAIN net :
       (/\ event'.op = "deleteSettled" /\ Failed(event'.outcome)
        /\ net[i].kind = "DELETE" /\ net' = RemoveAt(net, i)
        /\ net[i].atCall # NoNote)
       => \E k \in DOMAIN notes' : notes'[k] = net[i].atCall]_vars

\* C3: updates to one note that follow each other with no quiet interval
\* between them are sent as one request: the pointer move that follows a
\* pointer move of the same drag or resize issues no request of its own.
C3_BurstIssuesOneRequest ==
  [][\A id \in Ids :
       (/\ event = Ev("update", id, "-") /\ event' = Ev("update", id, "-")
        /\ isDragging[id] \/ isResizing[id])
       => issued' = issued]_vars

\* C4: once deleteNote(id) has been called, an updateNote call for that id
\* sends no request.
C4_NoUpdateRequestAfterDelete ==
  [][\A id \in Ids :
       (event = Ev("delete", id, "-") /\ event' = Ev("update", id, "-"))
       => issued' = issued]_vars

\* C5: a failed update request leaves the local collection as it is: the
\* merged values stay, the note stays, no other note changes.
C5_FailedUpdateKeepsLocalChange ==
  [][(event'.op = "updateSettled" /\ Failed(event'.outcome))
       => notes' = notes]_vars

C5_Witness ==
  /\ event.op = "updateSettled" /\ event.outcome = "neterr"
  /\ Has(notes, event.id)
  /\ Find(notes, event.id).title = EditorPatch.title
  /\ Len(notes) = 2

\* C6: updateNote(id, fields) changes the collection at once, with its
\* request still in flight: the note with that id has the fields merged in
\* and updatedAt set to the current time, every other note, the length and
\* the order are unchanged; an absent id changes nothing.
C6_UpdateMergesInPlace ==
  [][event'.op = "update" =>
       /\ Len(net') = Len(net) + 1
       /\ LastRequest(net').kind = "PATCH" /\ LastRequest(net').id = event'.id
       /\ Len(notes') = Len(notes)
       /\ \A k \in DOMAIN notes :
            /\ notes'[k].id = notes[k].id
            /\ notes[k].id # event'.id => notes'[k] = notes[k]
            /\ notes[k].id = event'.id =>
                 /\ notes'[k].updatedAt = now
                 /\ \A f \in DOMAIN LastRequest(net').body :
                      notes'[k][f] = LastRequest(net').body[f]
                 /\ \A f \in (DOMAIN notes[k] \ DOMAIN LastRequest(net').body) \ {"updatedAt"} :
                      notes'[k][f] = notes[k][f]]_vars

C6_Witness ==
  /\ event.op = "update"
  /\ Len(notes) = 2
  /\ Has(notes, event.id)
  /\ Find(notes, event.id).updatedAt # Find(notes, event.id).createdAt
  /\ LastRequest(net).kind = "PATCH"

\* C7: while the request of a created note is still in flight, the caller of
\* createNote already holds the note.
C7_CallerHoldsNoteBeforeSettle ==
  \A i \in DOMAIN net : net[i].kind = "POST" => net[i].id \in returned

\* C8: no two notes of the local collection share an identifier.
C8_IdentifiersUnique ==
  \A i, j \in DOMAIN notes : i # j => notes[i].id # notes[j].id

\* C9: create, update, delete on one identifier, and the settling of their
\* requests, leave the notes with every other identifier as they were:
\* present or absent, with the same field values, in the same relative order.
C9_OtherIdentifiersUntouched ==
  [][event'.op \in {"create", "update", "delete", "createSettled",
                    "updateSettled", "deleteSettled"}
       => OtherNotes(notes', event'.id) = OtherNotes(notes, event'.id)]_vars

C9_Witness ==
  /\ event.op = "createSettled" /\ event.outcome = "neterr"
  /\ ~Has(notes, event.id)
  /\ \E k \in DOMAIN notes : notes[k].id > event.id

\* C10: the settling of an update request, with success or with failure and
\* in whatever order relative to later local edits, never changes the local
\* collection.
C10_UpdateSettlingLeavesCollection ==
  [][event'.op = "updateSettled" => notes' = notes]_vars

C10_Witness ==
  /\ event.op = "updateSettled" /\ event.outcome = "ok"
  /\ Has(notes, event.id)
  /\ server[event.id] # NoRow
  /\ Find(notes, event.id).x # server[event.id].x

InRange(x) == ~Less(ToNumber(x), MIN_SCALE) /\ ~Less(MAX_SCALE, ToNumber(x)) /\ x # NaN

\* the world coordinate that is drawn at screen coordinate p
WorldAt(p, offset, scale) == Over(Minus(Num(p), offset), scale)

\* C11: a zoom-in, zoom-out, pan or reset event that starts with the scale
\* in [0.25, 2] ends with the scale in [0.25, 2].
C11_EventsKeepScaleInRange ==
  [][(event'.op \in {"wheel", "panStart", "panMove", "panEnd", "resetView"}
      /\ InRange(canvasState.scale))
       => InRange(canvasState'.scale)]_vars

C11_Witness ==
  /\ event = Ev("wheel", 2, "in")
  /\ canvasState.scale = MAX_SCALE
  /\ canvasEvents >= 2

\* C12: the scale of the viewport is in [0.25, 2] in every reachable state,
\* the state right after the stored viewport has been read included.
C12_ScaleAlwaysInRange == InRange(canvasState.scale)

\* C13: a zoom event leaves the world point under the pointer where it was,
\* on both axes, whether or not the new scale was clamped.
C13_ZoomKeepsWorldPointUnderPivot ==
  [][event'.op = "wheel" =>
       LET p == WheelPoints[event'.id]
       IN /\ StrictEquals(WorldAt(p[1], canvasState'.offsetX, canvasState'.scale),
                          WorldAt(p[1], canvasState.offsetX, canvasState.scale))
          /\ StrictEquals(WorldAt(p[2], canvasState'.offsetY, canvasState'.scale),
                          WorldAt(p[2], canvasState.offsetY, canvasState.scale))]_vars

\* C14: after a pointer move of a drag at scale s, with the pointer (dx, dy)
\* away from where it was pressed, the note is at (startX + dx/s,
\* startY + dy/s), whatever moves came before; width and height are those
\* of the note at the press.
C14_DragFollowsPointer ==
  [][\A id \in Ids :
       (/\ event' = Ev("update", id, "-") /\ isDragging[id]
        /\ gesture'.id = id /\ Has(notes', id))
       => LET note == Find(notes', id)
              start == gesture'.start
              s == canvasState.scale
          IN /\ note.x * s.n = start.x * s.n + gesture'.dx * s.d
             /\ note.y * s.n = start.y * s.n + gesture'.dy * s.d
             /\ note.width = start.width
             /\ note.height = start.height]_vars

\* C15: after a pointer move of a resize at scale s, with the pointer
\* (dx, dy) away from where it was pressed, the note's width is
\* max(180, startWidth + dx/s) and its height max(120, startHeight + dy/s),
\* so never below 180 and 120; its position is that of the note at the press.
C15_ResizeFollowsPointerAboveMinimum ==
  [][\A id \in Ids :
       (/\ event' = Ev("update", id, "-") /\ isResizing[id]
        /\ gesture'.id = id /\ Has(notes', id))
       => LET note == Find(notes', id)
              start == gesture'.start
              s == canvasState.scale
              w == start.width * s.n + gesture'.dx * s.d
              h == start.height * s.n + gesture'.dy * s.d
          IN /\ note.width * s.n = IF w < MinWidth * s.n THEN MinWidth * s.n ELSE w
             /\ note.height * s.n = IF h < MinHeight * s.n THEN MinHeight * s.n ELSE h
             /\ note.width >= MinWidth /\ note.height >= MinHeight
             /\ note.x = start.x /\ note.y = start.y]_vars

\* C16: every note of the local collection is at least 180 wide and 120
\* high, whatever creates, updates, resizes, loads and rollbacks made it.
C16_NotesAtLeastMinimumSize ==
  \A k \in DOMAIN notes : notes[k].width >= MinWidth /\ notes[k].height >= MinHeight

NotesOf(s) == {s[k] : k \in DOMAIN s}

\* C17: bringToFront(id) on a collection that holds id gives the same notes,
\* with the same field values, the note with that id last and the others in
\* the order they had; on a collection without id it changes nothing.
C17_BringToFrontMovesNoteLast ==
  [][event'.op = "bringToFront" =>
       IF Has(notes, event'.id)
       THEN /\ Len(notes') = Len(notes)
            /\ NotesOf(notes') = NotesOf(notes)
            /\ notes'[Len(notes')].id = event'.id
            /\ OtherNotes(notes', event'.id) = OtherNotes(notes, event'.id)
       ELSE notes' = notes]_vars

\* C18: a bringToFront(id) that directly follows a bringToFront(id) leaves
\* the collection as the first one left it.
C18_BringToFrontTwiceIsOnce ==
  [][(event'.op = "bringToFront" /\ event'.outcome = "again")
       => notes' = notes]_vars

C18_Witness ==
  /\ event.op = "bringToFront" /\ event.outcome = "again"
  /\ Len(notes) = 2
  /\ notes[2].id = event.id

\* C19: bringToFront(id) sends no request and changes no field of any note,
\* updatedAt included: every note of the result is a note of the collection
\* before, and the service is not touched.
C19_BringToFrontIsLocal ==
  [][event'.op = "bringToFront" =>
       /\ net' = net /\ issued' = issued /\ server' = server
       /\ NotesOf(notes') \subseteq NotesOf(notes)]_vars

C19_Witness ==
  /\ event.op = "bringToFront"
  /\ Len(notes) = 2
  /\ notes[2].id = event.id
  /\ notes[2].updatedAt < now
  /\ net # <<>>

\* C20: resetView sets the viewport to offsetX 0, offsetY 0, scale 1 from
\* every state, after any zooms and pans, with or without a pan in progress.
C20_ResetRestoresDefault ==
  [][event'.op = "resetView" => canvasState' = DefaultCanvas]_vars

C20_Witness ==
  /\ event.op = "resetView"
  /\ isPanning
  /\ canvasEvents >= 2
  /\ canvasState = DefaultCanvas

\* C21: createNote(x, y, color) appends one note at the end of the collection:
\* at (x, y), 240 wide and 180 high, with empty title and content, yellow
\* when no color was passed and of the passed color otherwise.
C21_CreateAppendsDefaultNote ==
  [][event'.op = "create" =>
       LET a == event'.args
           n == notes'[Len(notes')]
       IN /\ Len(notes') = Len(notes) + 1
          /\ SubSeq(notes', 1, Len(notes)) = notes
          /\ n.x = a.x /\ n.y = a.y
          /\ n.width = 240 /\ n.height = 180
          /\ n.title = "" /\ n.content = ""
          /\ n.color = IF a.color = Undefined THEN "yellow" ELSE a.color]_vars

C21_Witness ==
  /\ event.op = "create"
  /\ event.args = CreateArgs(50, 70, "pink")
  /\ Len(notes) = 2
  /\ notes[1].color = "yellow"
  /\ notes[2].color = "pink" /\ notes[2].x = 50 /\ notes[2].y = 70

\* C22: when the hook has mounted with no token, no request has been sent,
\* the collection is empty, isLoaded is true and no error is recorded.
C22_NoTokenStartsEmptyAndLoaded ==
  (event.op = "mount" /\ ~token)
    => /\ net = <<>> /\ issued = 0
       /\ notes = <<>>
       /\ isLoaded
       /\ error = "none"

C22_Witness ==
  /\ event.op = "mount"
  /\ ~token
  /\ isLoaded
  /\ server = [i \in Ids |-> NoRow]

\* C23: when the stored viewport text cannot be parsed, or parses to data
\* that is not a record of three numbers, the viewport after the mount is
\* offsetX 0, offsetY 0, scale 1.
C23_MalformedRecordGivesDefault ==
  (event.op = "mount" /\ event.outcome \in {"unparsable", "malformed"})
    => canvasState = DefaultCanvas

\* C24: a write of the viewport record that the store refuses is ignored: no
\* exception leaves the hook, so the viewport keeps its value and the
\* handlers stay in place for the events that follow.
C24_FailedWriteIsIgnored == canvasError = "none"

\* C25: a mousedown on the canvas that finds no pan in progress starts one
\* exactly when Space is held or the button is the middle one (1); any other
\* mousedown leaves isPanning false.
C25_PanStartsWithSpaceOrMiddleButton ==
  [][(event'.op = "panStart" /\ ~isPanning)
       => (isPanning' <=> (isSpacePressed \/ event'.id = 1))]_vars

C25_Witness ==
  /\ event = Ev("panStart", 0, "-")
  /\ isSpacePressed
  /\ isPanning

\* C26: a mousemove during a pan adds its movementX and movementY to offsetX
\* and offsetY as they are, at every scale, and keeps the scale; a mousemove
\* with no pan in progress leaves the viewport as it is.
C26_PanMoveAddsRawMovement ==
  [][event'.op = "panMove" =>
       LET m == Movements[event'.id]
       IN IF isPanning
          THEN /\ canvasState'.offsetX = Plus(canvasState.offsetX, Num(m[1]))
               /\ canvasState'.offsetY = Plus(canvasState.offsetY, Num(m[2]))
               /\ canvasState'.scale = canvasState.scale
          ELSE canvasState' = canvasState]_vars

C26_Witness ==
  /\ event = Ev("panMove", 1, "panning")
  /\ canvasState.scale = MAX_SCALE
  /\ canvasState.offsetX = Num(50) /\ canvasState.offsetY = Num(-30)

\* C27: mouseup, mouseleave and the release of Space each leave isPanning
\* false, the release of Space also when it comes during a pan; from then on
\* isPanning becomes true only by a mousedown, and a mousemove that finds it
\* false changes no offset.
C27_PanEndsAndStaysEnded ==
  [][/\ event'.op \in {"panEnd", "spaceUp"} => ~isPanning'
     /\ (~isPanning /\ isPanning') => event'.op = "panStart"
     /\ (~isPanning /\ event'.op = "panMove")
          => /\ canvasState'.offsetX = canvasState.offsetX
             /\ canvasState'.offsetY = canvasState.offsetY]_vars

C27_Witness ==
  /\ event = Ev("spaceUp", NoId, "panning")
  /\ ~isPanning
  /\ ~isSpacePressed
  /\ canvasEvents >= 1
  /\ canvasState.offsetX = Num(10)

\* C28: no note is dragged and resized at once: a mousedown on the handle
\* starts the resize only, a mousedown on the body the drag only, and none
\* of them starts its mode while the other is active.
C28_DragAndResizeExclusive ==
  \A id \in Ids : ~(isDragging[id] /\ isResizing[id])

\* C29: the release of a press on a note's body selects the note, and leaves
\* it where it was, when no mousemove came between press and release; it
\* selects nothing when mousemoves between them have moved the note.
C29_ClickSelectsDragDoesNot ==
  [][\A id \in Ids :
       (/\ isDragging[id] /\ ~isDragging'[id]
        /\ Has(notes', id) /\ gesture.id = id)
       => LET note == Find(notes', id)
              start == gesture.start
          IN /\ ~gesture.moved
                  => /\ selectedNote'.id = id
                     /\ note.x = start.x /\ note.y = start.y
             /\ (gesture.moved /\ (note.x # start.x \/ note.y # start.y))
                  => selectedNote' = selectedNote]_vars

\* C30: when the request of a delete fails right after the delete, with no
\* other change of the collection in between, and the note is put back, it
\* is at the place it had before the delete: the collection is in the order
\* it had before the delete.
C30_FailedDeleteRestoresOrder ==
  [][\A i \in DOMAIN net :
       (/\ event = Ev("delete", net[i].id, "-") /\ i = Len(net)
        /\ net[i].kind = "DELETE" /\ net[i].atIndex > 0
        /\ event' = Ev("deleteSettled", net[i].id, event'.outcome)
        /\ Failed(event'.outcome)
        /\ net' = RemoveAt(net, i)
        /\ Has(notes', net[i].id))
       => /\ Len(notes') = Len(notes) + 1
          /\ notes'[net[i].atIndex].id = net[i].id
          /\ OtherNotes(notes', net[i].id) = notes]_vars

\* C31: no step changes the identifier or the creation time of a note that
\* is in the collection: an update, a move or resize, bringToFront and the
\* settling of a request keep them note by note, a reload by fetch-all gives
\* every note it brings back the creation time the note had, and the
\* rollback of a delete puts the note back with the creation time it had.
C31_IdentifierAndCreationTimeKept ==
  [][/\ \A k \in DOMAIN notes' :
          Has(notes, notes'[k].id)
          => \E j \in DOMAIN notes :
               /\ notes[j].id = notes'[k].id
               /\ notes[j].createdAt = notes'[k].createdAt
     /\ event'.op \in {"update", "updateSettled"}
          => /\ Len(notes') = Len(notes)
             /\ \A k \in DOMAIN notes : notes'[k].id = notes[k].id
     /\ \A i \in DOMAIN net :
          (/\ event' = Ev("deleteSettled", net[i].id, "neterr")
           /\ net[i].kind = "DELETE" /\ net' = RemoveAt(net, i)
           /\ net[i].atCall # NoNote /\ ~Has(notes, net[i].id))
          => \A k \in DOMAIN notes' :
               notes'[k].id = net[i].id
               => notes'[k].createdAt = net[i].atCall.createdAt]_vars

\* C32: a note that createNote sent and the service stored reads back, through
\* the mapping of the fetch effect, with the value it was sent with in every
\* field, createdAt and updatedAt included.
C32_CreatedNoteReadsBackEqual ==
  [][\A i \in DOMAIN net :
       (/\ event' = Ev("createSettled", net[i].id, "ok")
        /\ net[i].kind = "POST" /\ net' = RemoveAt(net, i))
       => MapNote(server'[net[i].id]) = net[i].body]_vars

\* The factor of a wheel event, and the offset that keeps the pivot p in
\* place when the scale goes from scale to newScale.
FactorOf(direction) == IF direction = "in" THEN ZoomInFactor ELSE ZoomOutFactor
OffsetAround(p, offset, scale, newScale) ==
  Minus(Num(p), Times(Minus(Num(p), offset), Over(newScale, scale)))

\* C33: a wheel event whose step takes the scale out of [0.25, 2] sets the
\* scale to the nearer limit and the offset to the one that belongs to that
\* limit; a zoom-in at scale 2 and a zoom-out at scale 0.25 change neither
\* scale nor offset.
C33_ClampedZoomUsesClampedScale ==
  [][event'.op = "wheel" =>
       LET p == WheelPoints[event'.id]
           c == canvasState
           stepped == Times(ToNumber(c.scale), FactorOf(event'.outcome))
           limit == IF Less(stepped, MIN_SCALE) THEN MIN_SCALE ELSE MAX_SCALE
       IN /\ ~InRange(stepped)
               => /\ canvasState'.scale = limit
                  /\ canvasState'.offsetX = OffsetAround(p[1], c.offsetX, c.scale, limit)
                  /\ canvasState'.offsetY = OffsetAround(p[2], c.offsetY, c.scale, limit)
          /\ (\/ c.scale = MAX_SCALE /\ event'.outcome = "in"
              \/ c.scale = MIN_SCALE /\ event'.outcome = "out")
               => canvasState' = c]_vars

\* C34: a zoom-in wheel event whose step stays in [0.25, 2] multiplies the
\* scale by 11/10, a zoom-out by 9/10, and the offset is the one that keeps
\* the pointer's position in place; from offset (0, 0) and scale 1 a zoom-in
\* at (400, 300) gives scale 11/10 and offset (-40, -30).
C34_ZoomStepFactors ==
  [][event'.op = "wheel" =>
       LET p == WheelPoints[event'.id]
           c == canvasState
           stepped == Times(ToNumber(c.scale), FactorOf(event'.outcome))
       IN /\ InRange(stepped)
               => /\ canvasState'.scale = stepped
                  /\ canvasState'.offsetX = OffsetAround(p[1], c.offsetX, c.scale, stepped)
                  /\ canvasState'.offsetY = OffsetAround(p[2], c.offsetY, c.scale, stepped)
          /\ (c = DefaultCanvas /\ event' = Ev("wheel", 2, "in"))
               => canvasState' = [scale |-> [n |-> 11, d |-> 10],
                                  offsetX |-> Num(-40), offsetY |-> Num(-30)]]_vars

\* C35: after the pointer-down that starts a drag or a resize of a note, the
\* note is the last of the collection and the other notes are in the order
\* they had.
C35_PressBringsNoteToFront ==
  [][\A id \in Ids :
       (/\ event' = Ev("bringToFront", id, "-")
        /\ gesture'.id = id /\ gesture # gesture'
        /\ isDragging'[id] \/ isResizing'[id])
       => /\ notes'[Len(notes')].id = id
          /\ OtherNotes(notes', id) = OtherNotes(notes, id)]_vars

C35_Witness ==
  /\ event = Ev("bringToFront", 1, "-")
  /\ gesture.id = 1 /\ ~gesture.moved
  /\ isDragging[1]
  /\ Len(notes) = 2
  /\ notes[1].id = 2 /\ notes[2].id = 1

\* C36: while the store takes writes, whenever every change of the viewport
\* has been rendered, the stored record is the viewport; and the effects of
\* the mount make the record that was stored the viewport, although the
\* initial viewport is written to the store before it is rendered.
C36_StoredRecordIsViewport ==
  [][/\ (closureCanvas' = canvasState' /\ event'.op # "mounting" /\ ~storageFull')
          => storage' = Json(canvasState')
     /\ (event.op = "mounting" /\ event.outcome = "record")
          => canvasState' = storage.value]_vars

\* C37: when every request has succeeded and none is in flight or waiting
\* for its timer, the service holds every note of the local collection with
\* the title, content, color, position and size the collection has, in
\* whatever order the requests reached the service.
C37_ServiceHoldsLocalValues ==
  (net = <<>> /\ ~timer.armed)
    => \A k \in DOMAIN notes :
         LET row == server[notes[k].id]
         IN /\ row # NoRow
            /\ \A f \in {"title", "content", "color", "x", "y", "width", "height"} :
                 row[f] = notes[k][f]

\* C38: the note that is selected for editing is in the collection, so the
\* auto-save timer of the editor is never set for a note that is not in it.
C38_SelectionIsInCollection ==
  /\ selectedNote # NoNote => Has(notes, selectedNote.id)
  /\ timer.armed => Has(notes, timer.id)

\* C39: an edit made in the editor of a note of the collection, once it waits
\* in the auto-save timer, leaves the timer only by being applied to the note:
\* closing the editor or selecting another note does not drop it.
C39_PendingEditIsApplied ==
  [][(/\ timer.armed /\ Has(notes, timer.id)
      /\ selectedNote.id = timer.id
      /\ \E f \in DOMAIN timer.updates : timer.updates[f] # selectedNote[f]
      /\ timer' # timer)
       => \/ /\ timer'.armed /\ timer'.id = timer.id
             /\ \A f \in DOMAIN timer.updates :
                  timer.updates[f] # selectedNote[f]
                  => timer'.updates[f] = timer.updates[f]
          \/ /\ event' = Ev("update", timer.id, "-")
             /\ \A f \in DOMAIN timer.updates :
                  Find(notes', timer.id)[f] = timer.updates[f]]_vars

\* C40: when the credential is removed by logout, no note that the service
\* holds for that credential (fetched under it, or created under it and
\* accepted) is left in the local collection.
C40_LogoutRemovesCredentialNotes ==
  [][(token /\ ~token')
       => \A k \in DOMAIN notes' : server[notes'[k].id] = NoRow]_vars

====
